---- MODULE Spec2Model ----
(***************************************************************************)
(* Model of the subtitle reader's playback clock, active-line resolver     *)
(* and translation requests (ReaderView in src/unnamed/part_000).          *)
(*                                                                         *)
(* Time is counted in units of 10 ms: the 0.01 s jump offset is 1 unit,    *)
(* the 0.1 s slider step is 10 units and the 50 ms interval is 5 units.    *)
(* The wall clock advances by whole interval periods, so an interval       *)
(* callback fires on time or late by whole periods.                        *)
(*                                                                         *)
(* React is modelled by what it does to this component: an event handler   *)
(* or interval callback runs to completion and its state updates are       *)
(* committed together; the effects whose dependencies changed then run in  *)
(* declaration order (timer effect, then active-line effect) before the    *)
(* next event or callback is handled.                                      *)
(*                                                                         *)
(* Text is a sequence of one-character strings.  A translation call is a   *)
(* message in flight from the moment a handler issues it until it settles  *)
(* with a reply or with an error.                                          *)
(*                                                                         *)
(* Spec follows the playback clock while no reply arrives, SpecAutoStop    *)
(* adds the scheduling of the browser to it and SpecMount the closing of   *)
(* the reader; SpecClock follows a document of one long cue; SpecTranslate *)
(* follows the translation requests of a stopped reader, SpecReader those  *)
(* of a reader whose clock runs, and SpecSession a reader whose document   *)
(* is replaced in place; SpecParse follows one upload handled by the       *)
(* server (parseSubtitles in src/server.ts).                               *)
(***************************************************************************)
EXTENDS Integers, Sequences, FiniteSets, TLC

\* ---- bounds of the model ----
MaxCues == 2          \* longest cue sequence a document holds
MaxCueK == 1          \* cue timestamps are 0, 1, .. MaxCueK slider steps
MaxPeriods == 3       \* the wall clock runs for this many tick periods
MaxCalls == 3         \* translation calls the user's clicks issue in a session

\* ---- program constants, in units of 10 ms ----
TickInterval == 5     \* setInterval(..., 50)
JumpOffset == 1       \* startTime + 0.01
SliderStep == 10      \* step="0.1"

NullIndex == 0 - 2    \* activeLineIndex === null
NotFound == 0 - 1     \* findIndex found no element
NoTime == 0 - 1       \* history value: no argument / no play() in effect

VARIABLES
  loading,            \* useState(true)
  data,               \* useState<SubtitleDetail | null>(null)
  isPlaying,          \* useState(false)
  currentTime,        \* useState(0)
  activeLineIndex,    \* useState<number | null>(null)
  timerRef,           \* TRUE while the interval held by timerRef.current is scheduled
  scheduled,          \* number of intervals scheduled with setInterval and not cleared
  startTime,          \* origin captured by the scheduled interval's closure
  due,                \* earliest wall-clock time of the interval's next callback
  now,                \* Date.now()
  dirtyTimer,         \* timer effect has changed dependencies and has not run yet
  dirtyActive,        \* active-line effect has changed dependencies and has not run yet
  lastOp,             \* history: the last handler or callback that ran
  opArg,              \* history: its argument (seek value, jumped index)
  lineOutcome,        \* history: the path its handleTranslate call took, if any
  playFrom,           \* history: elapsed at the play() still in effect
  translations,       \* useState<Record<number, string>>({})
  isTranslating,      \* useState(false)
  selectedWord,       \* useState<{ text; lineIndex } | null>(null): <<>> or <<word>>
  wordTranslation,    \* useState<string | null>(null): <<>> or <<text>>
  isTranslatingWord,  \* useState(false)
  lineCalls,          \* generateContent calls of handleTranslate not yet settled
  wordCalls,          \* generateContent calls of handleWordClick not yet settled
  lineIssued,         \* history: number of line calls issued so far
  wordIssued,         \* history: number of word calls issued so far
  selectedCall,       \* history: the word call issued for the current selection
  heldCall,           \* history: the word call whose reply wordTranslation holds
  request,            \* the upload request the server is handling: <<>> or <<req>>
  rows,               \* rows of the subtitles table, in insertion order
  response            \* HTTP status the upload handler answered with, 0 before

\* the translation state of the reader
tvars == <<translations, isTranslating, selectedWord, wordTranslation,
           isTranslatingWord, lineCalls, wordCalls, lineIssued, wordIssued,
           selectedCall, heldCall>>

\* the playback state of the reader
pvars == <<isPlaying, currentTime, activeLineIndex, timerRef, scheduled, startTime, due, now,
           dirtyTimer, dirtyActive, playFrom>>

\* the state of the reader
rvars == <<loading, data, isPlaying, currentTime, activeLineIndex, timerRef, scheduled,
           startTime, due, now, dirtyTimer, dirtyActive, lastOp, opArg, lineOutcome, playFrom,
           translations, isTranslating, selectedWord, wordTranslation,
           isTranslatingWord, lineCalls, wordCalls, lineIssued, wordIssued,
           selectedCall, heldCall>>

\* the state of the server
svars == <<request, rows, response>>

vars == <<rvars, svars>>

\* ---- documents the server can return ----
\* A timestamp "HH:MM:SS.mmm" is <<hours, minutes, seconds in units of 10 ms>>.
Timestamps == { <<0, 0, k * SliderStep>> : k \in 0..MaxCueK }

\* The cues of the documents used to follow the clock carry no text (a
\* timecode block without text lines), so that jumping to them issues no
\* translation call; TextDocuments below carry the texts.
Cues == [start : Timestamps, end : Timestamps, text : { <<>> }]

RECURSIVE SeqsUpTo(_, _)
SeqsUpTo(S, n) ==
  IF n = 0 THEN { <<>> }
  ELSE LET shorter == SeqsUpTo(S, n - 1)
       IN shorter \cup { Append(s, x) : s \in { t \in shorter : Len(t) = n - 1 }, x \in S }

Documents == SeqsUpTo(Cues, MaxCues)

\* a cue that takes several interval periods to play, and the documents used
\* to follow interval callbacks that fire late
LongCue ==
  [start |-> <<0, 0, 0>>, end |-> <<0, 0, (MaxCueK + 1) * SliderStep>>, text |-> <<>>]

LongDocuments == { <<>>, << LongCue >> }

\* cue texts of the documents used to follow translation: a blank text, and a
\* text of two words with the same normal form and a punctuation-only word
Texts == { <<" ">>, <<"h", "i", ",", " ", "h", "i", " ", ".">> }

TextCues == [start : { <<0, 0, 0>> }, end : { <<0, 0, SliderStep>> }, text : Texts]

TextDocuments == SeqsUpTo(TextCues, MaxCues)

\* the documents used to follow word selections while the clock runs: none, or
\* one cue with a text
WordDocuments == SeqsUpTo(TextCues, 1)

\* what a generateContent call can answer in response.text, before trimming
Replies == { <<" ">>, <<"T", " ">> }

NullData == [present |-> FALSE, parsed_json |-> <<>>]

\* ---- pure helpers ----
TimeToSeconds(timeStr) == timeStr[1] * 360000 + timeStr[2] * 6000 + timeStr[3]

TotalDuration(d) ==
  IF d.present /\ Len(d.parsed_json) # 0
  THEN TimeToSeconds(d.parsed_json[Len(d.parsed_json)].end)
  ELSE 0

Contains(line, t) == t >= TimeToSeconds(line.start) /\ t <= TimeToSeconds(line.end)

RECURSIVE FindFrom(_, _, _)
FindFrom(lines, t, i) ==
  IF i >= Len(lines) THEN NotFound
  ELSE IF Contains(lines[i + 1], t) THEN i
  ELSE FindFrom(lines, t, i + 1)

\* bug variant: the scan keeps the last matching cue instead of the first
RECURSIVE FindLastFrom(_, _, _)
FindLastFrom(lines, t, i) ==
  IF i < 0 THEN NotFound
  ELSE IF Contains(lines[i + 1], t) THEN i
  ELSE FindLastFrom(lines, t, i - 1)

FindIndex_Last(lines, t) == FindLastFrom(lines, t, Len(lines) - 1)

FindIndex(lines, t) == FindFrom(lines, t, 0)

\* bug variant: a gap clears the active line
ActiveLineNext_Clears(lines, t, active) ==
  LET index == FindIndex(lines, t)
  IN IF index # NotFound THEN index ELSE NullIndex

ActiveLineNext(lines, t, active) ==
  LET index == FindIndex(lines, t)
  IN IF index # NotFound /\ index # active THEN index ELSE active

PlayOrigin(wall, elapsed) == wall - elapsed

\* bug variant: every callback adds one interval period to the stored time
TickElapsed_Accumulates(wall, origin) == currentTime + TickInterval

TickElapsed(wall, origin) == wall - origin

\* bug variant: the callback never finds the end reached
TickStops_Never(elapsed, total) == FALSE

TickStops(elapsed, total) == elapsed >= total

\* bug variant: the last tick stores the recomputed time unclamped
TickTime_Overshoot(elapsed, total) == elapsed

TickTime(elapsed, total) == IF TickStops(elapsed, total) THEN total ELSE elapsed

\* bug variant: the jump lands exactly on the cue's start
JumpTime_NoOffset(lines, index) == TimeToSeconds(lines[index + 1].start)

JumpTime(lines, index) == TimeToSeconds(lines[index + 1].start) + JumpOffset

SliderValues(max) == { v \in 0..max : v % SliderStep = 0 }

\* ---- text helpers ----
IsSpace(c) == c = " "

RECURSIVE TrimStart(_)
TrimStart(str) ==
  IF str # <<>> /\ IsSpace(Head(str)) THEN TrimStart(Tail(str)) ELSE str

RECURSIVE TrimEnd(_)
TrimEnd(str) ==
  IF str # <<>> /\ IsSpace(str[Len(str)])
  THEN TrimEnd(SubSeq(str, 1, Len(str) - 1))
  ELSE str

\* String.prototype.trim
Trim(str) == TrimEnd(TrimStart(str))

Punctuation == { ".", ",", "!", "?", ";", ":", "(", ")" }

IsKept(c) == c \notin Punctuation

\* word.replace(/[.,!?;:()]/g, "")
StripPunctuation(word) == SelectSeq(word, IsKept)

\* bug variant: the word is only trimmed, its punctuation is kept
CleanWord_KeepsPunctuation(word) == Trim(word)

CleanWord(word) == Trim(StripPunctuation(word))

\* text.split(/\s+/): rest is still to scan, cur is the word being read
RECURSIVE SplitFrom(_, _, _)
SplitFrom(rest, cur, acc) ==
  IF rest = <<>> THEN Append(acc, cur)
  ELSE IF IsSpace(Head(rest)) THEN SplitFrom(TrimStart(rest), <<>>, Append(acc, cur))
  ELSE SplitFrom(Tail(rest), Append(cur, Head(rest)), acc)

Split(text) == SplitFrom(text, <<>>, <<>>)

\* the words rendered as clickable spans of a line
WordsOf(text) == { Split(text)[k] : k \in 1..Len(Split(text)) }

\* ---- translation helpers ----
\* translations[index] is <<>> while the record has no such key, else <<text>>
NoTranslations == [i \in 0..(MaxCues - 1) |-> <<>>]

\* translations[index] used as a condition
Truthy(tr, index) == tr[index] # <<>> /\ tr[index][1] # <<>>

\* bug variant: a request is sent although a line call is in flight
ShouldTranslate_IgnoresInFlight(tr, inflight, text, index) ==
  ~Truthy(tr, index) /\ Trim(text) # <<>>

\* bug variant: blank text is sent
ShouldTranslate_SendsBlank(tr, inflight, text, index) ==
  ~Truthy(tr, index) /\ ~inflight

\* bug variant: the word flag also holds back a line request
ShouldTranslate_BlockedByWord(tr, inflight, text, index) ==
  ~Truthy(tr, index) /\ ~inflight /\ ~isTranslatingWord /\ Trim(text) # <<>>

\* handleTranslate goes on to issue a call
ShouldTranslate(tr, inflight, text, index) ==
  ~Truthy(tr, index) /\ ~inflight /\ Trim(text) # <<>>

\* response.text?.trim() || ""
ReplyText(reply) == Trim(reply)

\* { ...prev, [index]: translatedText }
StoreTranslation(tr, index, text) == [tr EXCEPT ![index] = <<text>>]

\* ---- the subtitle parser of the server ----
MaxLines == 3         \* longest uploaded text, in lines

\* file extensions of uploads, after path.extname(...).toLowerCase()
Extensions == { ".srt", ".vtt", ".ass", ".txt" }

\* a timecode line, comma separators
TcLine1 ==
  <<"0", "0", ":", "0", "0", ":", "0", "1", ",", "0", "0", "0", " ", "-",
    "-", ">", " ", "0", "0", ":", "0", "0", ":", "0", "2", ",", "0", "0",
    "0">>

\* a timecode line inside other characters, mixed separators, end before start
TcLine2 ==
  <<"x", "0", "0", ":", "0", "0", ":", "0", "3", ".", "0", "0", "0", " ",
    "-", "-", ">", " ", "0", "0", ":", "0", "0", ":", "0", "1", ",", "5",
    "0", "0">>

\* lines of .srt/.vtt uploads: empty, blank, a text with a space to trim, and
\* the two timecode lines
SrtLines == { <<>>, <<" ">>, <<" ", "a">>, TcLine1, TcLine2 }

\* a Dialogue line of 10 fields with override tags around its text
AssLine1 ==
  <<"D", "i", "a", "l", "o", "g", "u", "e", ":", " ", "0", ",", "0", ":",
    "0", "0", ":", "0", "1", ".", "0", "0", ",", "0", ":", "0", "0", ":",
    "0", "3", ".", "0", "0", ",", "D", "e", "f", "a", "u", "l", "t", ",",
    ",", "0", ",", "0", ",", "0", ",", ",", "{", "\\", "i", "1", "}", "H",
    "i", " ", "t", "h", "e", "r", "e", "{", "\\", "i", "0", "}">>

\* a Dialogue line of 9 fields
AssLine2 ==
  <<"D", "i", "a", "l", "o", "g", "u", "e", ":", " ", "0", ",", "0", ":",
    "0", "0", ":", "0", "1", ".", "0", "0", ",", "0", ":", "0", "0", ":",
    "0", "3", ".", "0", "0", ",", "D", ",", ",", "0", ",", "0", ",", "0",
    ",">>

\* a Dialogue line whose text is one tag, end before start
AssLine3 ==
  <<"D", "i", "a", "l", "o", "g", "u", "e", ":", " ", "0", ",", "0", ":",
    "0", "0", ":", "0", "5", ".", "0", "0", ",", "0", ":", "0", "0", ":",
    "0", "4", ".", "0", "0", ",", "D", ",", ",", "0", ",", "0", ",", "0",
    ",", ",", "{", "a", "}">>

\* a Dialogue line whose text holds a comma, nested braces and outer spaces
AssLine4 ==
  <<"D", "i", "a", "l", "o", "g", "u", "e", ":", " ", "0", ",", "0", ":",
    "0", "0", ":", "0", "2", ".", "0", "0", ",", "0", ":", "0", "0", ":",
    "0", "2", ".", "5", "0", ",", "D", ",", ",", "0", ",", "0", ",", "0",
    ",", ",", " ", "a", ",", "{", "b", "{", "c", "}", "d", "}", " ">>

\* a line of 10 fields that is no Dialogue line
AssLine5 ==
  <<"C", "o", "m", "m", "e", "n", "t", ":", " ", "0", ",", "0", ":", "0",
    "0", ":", "0", "1", ".", "0", "0", ",", "0", ":", "0", "0", ":", "0",
    "3", ".", "0", "0", ",", "D", ",", ",", "0", ",", "0", ",", "0", ",",
    ",", "x">>

\* lines of .ass uploads
AssLines == { AssLine1, AssLine2, AssLine3, AssLine4, AssLine5 }

\* line terminators of an uploaded text
Eols == { <<"\n">>, <<"\r", "\n">> }

RECURSIVE JoinWith(_, _)
\* the text whose lines are ls, with eol between them
JoinWith(ls, eol) ==
  IF ls = <<>> THEN <<>>
  ELSE IF Len(ls) = 1 THEN ls[1]
  ELSE ls[1] \o eol \o JoinWith(Tail(ls), eol)

\* uploaded texts of at most MaxLines lines
ContentsOf(lineSet) ==
  { JoinWith(ls, eol) : ls \in SeqsUpTo(lineSet, MaxLines), eol \in Eols }

Contents == ContentsOf(SrtLines) \cup ContentsOf(AssLines)

RECURSIVE NormalizeEol(_)
\* content.replace(/\r\n/g, '\n'): the matches are taken from left to right
NormalizeEol(str) ==
  LET at == { i \in 1..(Len(str) - 1) : str[i] = "\r" /\ str[i + 1] = "\n" }
  IN IF at = {} THEN str
     ELSE LET i == CHOOSE j \in at : \A k \in at : j <= k
          IN SubSeq(str, 1, i - 1) \o <<"\n">>
               \o NormalizeEol(SubSeq(str, i + 2, Len(str)))

RECURSIVE SplitOnFrom(_, _, _)
\* String.prototype.split(sep) for a one-character separator: acc holds the
\* pieces before rest, which ends at the next separator or at the end
SplitOnFrom(rest, sep, acc) ==
  LET at == { i \in 1..Len(rest) : rest[i] = sep }
  IN IF at = {} THEN Append(acc, rest)
     ELSE LET i == CHOOSE j \in at : \A k \in at : j <= k
          IN SplitOnFrom(SubSeq(rest, i + 1, Len(rest)), sep,
                         Append(acc, SubSeq(rest, 1, i - 1)))

\* str.split(sep)
SplitOn(str, sep) == SplitOnFrom(str, sep, <<>>)

\* content.replace(/\r\n/g, '\n').split('\n')
SplitLines(content) == SplitOn(NormalizeEol(content), "\n")

Digits == { "0", "1", "2", "3", "4", "5", "6", "7", "8", "9" }

\* \d{2}:\d{2}:\d{2}[,.]\d{3} at position i of line
TimestampAt(line, i) ==
  /\ i + 11 <= Len(line)
  /\ \A k \in { 0, 1, 3, 4, 6, 7, 9, 10, 11 } : line[i + k] \in Digits
  /\ line[i + 2] = ":" /\ line[i + 5] = ":"
  /\ line[i + 8] \in { ",", "." }

\* timeRegex at position i of line
TimeRegexAt(line, i) ==
  /\ TimestampAt(line, i)
  /\ i + 16 <= Len(line)
  /\ SubSeq(line, i + 12, i + 16) = <<" ", "-", "-", ">", " ">>
  /\ TimestampAt(line, i + 17)

\* line.match(timeRegex): <<>>, or the two groups of the leftmost match
TimeMatch(line) ==
  LET at == { i \in 1..Len(line) : TimeRegexAt(line, i) }
  IN IF at = {} THEN <<>>
     ELSE LET i == CHOOSE j \in at : \A k \in at : j <= k
          IN << SubSeq(line, i, i + 11), SubSeq(line, i + 17, i + 28) >>

RECURSIVE ReplaceComma(_)
\* str.replace(',', '.'): the first comma only
ReplaceComma(str) ==
  IF str = <<>> THEN <<>>
  ELSE IF str[1] = "," THEN <<".">> \o Tail(str)
  ELSE <<str[1]>> \o ReplaceComma(Tail(str))

\* the cue opened by a timecode line
OpenCue(groups) ==
  [start |-> ReplaceComma(groups[1]), end |-> ReplaceComma(groups[2]), text |-> <<>>]

\* current.text += (current.text ? " " : "") + line.trim()
AppendText(cue, line) ==
  [cue EXCEPT !.text = @ \o (IF @ # <<>> THEN <<" ">> ELSE <<>>) \o Trim(line)]

\* bug variant: a timecode line met while a cue is open emits that cue
SrtStep_PushesOnTimecode(st, line) ==
  LET timeMatch == TimeMatch(line)
  IN IF timeMatch # <<>>
     THEN [current |-> << OpenCue(timeMatch) >>,
           result |-> IF st.current # <<>> THEN Append(st.result, st.current[1])
                      ELSE st.result]
     ELSE IF Trim(line) = <<>> /\ st.current # <<>>
          THEN [current |-> <<>>, result |-> Append(st.result, st.current[1])]
          ELSE IF st.current # <<>>
               THEN [st EXCEPT !.current = << AppendText(st.current[1], line) >>]
               ELSE st

\* one call of the forEach callback of the .srt/.vtt branch; st.current is
\* <<>> while current has no start, else <<cue>>
SrtStep(st, line) ==
  LET timeMatch == TimeMatch(line)
  IN IF timeMatch # <<>>
     THEN [st EXCEPT !.current = << OpenCue(timeMatch) >>]
     ELSE IF Trim(line) = <<>> /\ st.current # <<>>
          THEN [current |-> <<>>, result |-> Append(st.result, st.current[1])]
          ELSE IF st.current # <<>>
               THEN [st EXCEPT !.current = << AppendText(st.current[1], line) >>]
               ELSE st

RECURSIVE SrtFold(_, _)
\* lines.forEach of the .srt/.vtt branch
SrtFold(st, lines) ==
  IF lines = <<>> THEN st ELSE SrtFold(SrtStep(st, lines[1]), Tail(lines))

\* bug variant: a cue still open at the end of the input is dropped
ParseSrt_DropsOpenCue(lines) ==
  SrtFold([current |-> <<>>, result |-> <<>>], lines).result

\* bug variant: the cue still open at the end is put in front of the others
ParseSrt_OpenCueFirst(lines) ==
  LET st == SrtFold([current |-> <<>>, result |-> <<>>], lines)
  IN IF st.current # <<>> THEN << st.current[1] >> \o st.result ELSE st.result

\* bug variant: the cue still open at the end is emitted without its text
ParseSrt_OpenCueNoText(lines) ==
  LET st == SrtFold([current |-> <<>>, result |-> <<>>], lines)
  IN IF st.current # <<>>
     THEN Append(st.result, [st.current[1] EXCEPT !.text = <<>>])
     ELSE st.result

\* the .srt/.vtt branch, with the push after the loop
ParseSrt(lines) ==
  LET st == SrtFold([current |-> <<>>, result |-> <<>>], lines)
  IN IF st.current # <<>> THEN Append(st.result, st.current[1]) ELSE st.result

\* line.startsWith(prefix)
StartsWith(line, prefix) ==
  Len(line) >= Len(prefix) /\ SubSeq(line, 1, Len(prefix)) = prefix

DialoguePrefix == <<"D", "i", "a", "l", "o", "g", "u", "e", ":">>

\* number of fields a Dialogue line needs
MinFields == 10

\* parts.slice(9).join(',')
JoinFields(parts) == JoinWith(SubSeq(parts, MinFields, Len(parts)), <<",">>)

\* the first "}" that closes a "{" at position 1 of str with no line
\* terminator in between, or 0
CloseOf(str) ==
  LET js == { j \in 2..Len(str) :
                /\ str[j] = "}"
                /\ \A k \in 2..(j - 1) : str[k] \notin { "\n", "\r" } }
  IN IF js = {} THEN 0 ELSE CHOOSE j \in js : \A k \in js : j <= k

RECURSIVE RemoveTags_Greedy(_)
\* bug variant: a span runs to the last "}" of the text
RemoveTags_Greedy(str) ==
  IF str = <<>> THEN <<>>
  ELSE IF str[1] = "{" /\ CloseOf(str) # 0
       THEN LET last == CHOOSE j \in 2..Len(str) :
                          str[j] = "}" /\ \A k \in (j + 1)..Len(str) : str[k] # "}"
            IN RemoveTags_Greedy(SubSeq(str, last + 1, Len(str)))
       ELSE <<str[1]>> \o RemoveTags_Greedy(Tail(str))

RECURSIVE RemoveTags(_)
\* str.replace(/\{.*?\}/g, '')
RemoveTags(str) ==
  IF str = <<>> THEN <<>>
  ELSE IF str[1] = "{" /\ CloseOf(str) # 0
       THEN RemoveTags(SubSeq(str, CloseOf(str) + 1, Len(str)))
       ELSE <<str[1]>> \o RemoveTags(Tail(str))

\* bug variant: a Dialogue line is taken whatever its number of fields
AssStep_NoFieldCheck(result, line) ==
  IF StartsWith(line, DialoguePrefix)
  THEN LET parts == SplitOn(line, ",")
       IN Append(result, [start |-> parts[2], end |-> parts[3],
                          text |-> Trim(RemoveTags(JoinFields(parts)))])
  ELSE result

\* one call of the forEach callback of the .ass branch
AssStep(result, line) ==
  IF StartsWith(line, DialoguePrefix)
  THEN LET parts == SplitOn(line, ",")
       IN IF Len(parts) >= MinFields
          THEN Append(result, [start |-> parts[2], end |-> parts[3],
                               text |-> Trim(RemoveTags(JoinFields(parts)))])
          ELSE result
  ELSE result

RECURSIVE AssFold(_, _)
\* lines.forEach of the .ass branch
AssFold(result, lines) ==
  IF lines = <<>> THEN result ELSE AssFold(AssStep(result, lines[1]), Tail(lines))

\* bug variant: an unknown extension is parsed as .srt
ParseSubtitles_DefaultSrt(content, extension) ==
  IF extension = ".ass" THEN AssFold(<<>>, SplitLines(content))
  ELSE ParseSrt(SplitLines(content))

\* parseSubtitles
ParseSubtitles(content, extension) ==
  LET lines == SplitLines(content)
  IN IF extension \in { ".srt", ".vtt" } THEN ParseSrt(lines)
     ELSE IF extension = ".ass" THEN AssFold(<<>>, lines)
     ELSE <<>>

\* value of a decimal digit
DigitValue(c) ==
  CASE c = "0" -> 0 [] c = "1" -> 1 [] c = "2" -> 2 [] c = "3" -> 3 [] c = "4" -> 4
    [] c = "5" -> 5 [] c = "6" -> 6 [] c = "7" -> 7 [] c = "8" -> 8 [] c = "9" -> 9

RECURSIVE ParseDigits(_, _)
\* the number written by the leading digits of str, after the digits of acc
ParseDigits(str, acc) ==
  IF str = <<>> \/ str[1] \notin Digits THEN acc
  ELSE ParseDigits(Tail(str), acc * 10 + DigitValue(str[1]))

\* parseFloat of a whole number of hours or minutes
ParseWhole(str) == ParseDigits(str, 0)

\* parseFloat of seconds with a fraction, in units of 10 ms
ParseSeconds(str) ==
  LET p == SplitOn(str, ".")
      frac == IF Len(p) >= 2 THEN SubSeq(p[2] \o <<"0", "0">>, 1, 2) ELSE <<"0", "0">>
  IN ParseDigits(frac, ParseDigits(p[1], 0))

\* timeStr.split(':') with each part through parseFloat
ParseTimestamp(str) ==
  LET p == SplitOn(str, ":")
  IN << ParseWhole(p[1]), ParseWhole(p[2]), ParseSeconds(p[3]) >>

\* timeToSeconds of a timestamp string
SecondsOf(str) == TimeToSeconds(ParseTimestamp(str))

\* iconv.decode(buffer, detected.encoding || "utf-8"): the uploads are made of
\* ASCII bytes, which every detected encoding decodes byte for character
Decode(buffer) == buffer

\* upload requests: without a file, or with a file of some text and extension
Requests ==
  [hasFile : { FALSE }, buffer : { <<>> }, ext : { ".srt" }]
    \cup [hasFile : { TRUE }, buffer : Contents, ext : Extensions]

Settled == ~dirtyTimer /\ ~dirtyActive

ControlsShown == ~loading /\ data.present

\* ---- state after the component has mounted ----
Init ==
  /\ loading = TRUE
  /\ data = NullData
  /\ isPlaying = FALSE
  /\ currentTime = 0
  /\ activeLineIndex = NullIndex
  /\ timerRef = FALSE
  /\ scheduled = 0
  /\ startTime = 0
  /\ due = 0
  /\ now = 0
  /\ dirtyTimer = FALSE
  /\ dirtyActive = FALSE
  /\ lastOp = "mount"
  /\ lineOutcome = "none"
  /\ opArg = NoTime
  /\ playFrom = NoTime
  /\ translations = NoTranslations
  /\ isTranslating = FALSE
  /\ selectedWord = <<>>
  /\ wordTranslation = <<>>
  /\ isTranslatingWord = FALSE
  /\ lineCalls = {}
  /\ wordCalls = {}
  /\ lineIssued = 0
  /\ wordIssued = 0
  /\ selectedCall = 0
  /\ heldCall = 0
  /\ request = <<>>
  /\ rows = <<>>
  /\ response = 0

\* fetchData(): the response arrives, with a document or with an error
FetchDataFrom(docs) ==
  /\ loading
  /\ \E ok \in BOOLEAN : \E doc \in docs :
       /\ data' = IF ok THEN [present |-> TRUE, parsed_json |-> doc] ELSE NullData
       /\ ok \/ doc = <<>>
  /\ loading' = FALSE
  /\ dirtyTimer' = (TotalDuration(data') # TotalDuration(data))
  /\ dirtyActive' = (data' # data)
  /\ lastOp' = "load"
  /\ lineOutcome' = "none"
  /\ opArg' = NoTime
  /\ UNCHANGED svars
  /\ UNCHANGED <<isPlaying, currentTime, activeLineIndex, timerRef, scheduled, startTime, due,
                 now, playFrom>>
  /\ UNCHANGED tvars

FetchData == FetchDataFrom(Documents)

FetchDataText == FetchDataFrom(TextDocuments)

\* the filename prop changes while the reader stays mounted (an upload begun
\* in the archive ends in handleOpenReader after a document was opened): the
\* fetch effect runs again and the response brings another document
ReplaceDocument ==
  /\ Settled /\ ControlsShown
  /\ \E doc \in TextDocuments :
       /\ doc # data.parsed_json
       /\ data' = [present |-> TRUE, parsed_json |-> doc]
  /\ loading' = FALSE
  /\ dirtyTimer' = (TotalDuration(data') # TotalDuration(data))
  /\ dirtyActive' = TRUE
  /\ lastOp' = "replace"
  /\ lineOutcome' = "none"
  /\ opArg' = NoTime
  /\ UNCHANGED svars
  /\ UNCHANGED <<isPlaying, currentTime, activeLineIndex, timerRef, scheduled, startTime, due,
                 now, playFrom>>
  /\ UNCHANGED tvars

\* togglePlay
TogglePlay ==
  /\ Settled /\ ControlsShown
  /\ isPlaying' = ~isPlaying
  /\ dirtyTimer' = TRUE
  /\ lastOp' = IF isPlaying THEN "pause" ELSE "play"
  /\ lineOutcome' = "none"
  /\ opArg' = NoTime
  /\ UNCHANGED svars
  /\ playFrom' = IF isPlaying THEN NoTime ELSE currentTime
  /\ UNCHANGED <<loading, data, currentTime, activeLineIndex, timerRef, scheduled, startTime,
                 due, now, dirtyActive>>
  /\ UNCHANGED tvars

\* resetPlayback
ResetPlayback ==
  /\ Settled /\ ControlsShown
  /\ isPlaying' = FALSE
  /\ currentTime' = 0
  /\ activeLineIndex' = NullIndex
  /\ dirtyTimer' = (isPlaying' # isPlaying)
  /\ dirtyActive' = (currentTime' # currentTime \/ activeLineIndex' # activeLineIndex)
  /\ lastOp' = "reset"
  /\ lineOutcome' = "none"
  /\ opArg' = NoTime
  /\ UNCHANGED svars
  /\ playFrom' = NoTime
  /\ UNCHANGED <<loading, data, timerRef, scheduled, startTime, due, now>>
  /\ UNCHANGED tvars

\* bug variant: the slider handler also writes the active line itself
Seek_SetsActive(v) ==
  /\ Settled /\ ControlsShown
  /\ currentTime' = v
  /\ activeLineIndex' = FindIndex(data.parsed_json, v)
  /\ dirtyActive' = (currentTime' # currentTime \/ activeLineIndex' # activeLineIndex)
  /\ lastOp' = "seek"
  /\ lineOutcome' = "none"
  /\ opArg' = v
  /\ UNCHANGED svars
  /\ playFrom' = NoTime
  /\ UNCHANGED <<loading, data, isPlaying, timerRef, scheduled, startTime, due, now, dirtyTimer>>
  /\ UNCHANGED tvars

\* bug variant: the slider handler pauses playback
Seek_Pauses(v) ==
  /\ Settled /\ ControlsShown
  /\ currentTime' = v
  /\ isPlaying' = FALSE
  /\ dirtyTimer' = isPlaying
  /\ dirtyActive' = (currentTime' # currentTime)
  /\ lastOp' = "seek"
  /\ lineOutcome' = "none"
  /\ opArg' = v
  /\ UNCHANGED svars
  /\ playFrom' = NoTime
  /\ UNCHANGED <<loading, data, activeLineIndex, timerRef, scheduled, startTime, due, now>>
  /\ UNCHANGED tvars

\* the seek slider's onChange
Seek(v) ==
  /\ Settled /\ ControlsShown
  /\ currentTime' = v
  /\ dirtyActive' = (currentTime' # currentTime)
  /\ lastOp' = "seek"
  /\ lineOutcome' = "none"
  /\ opArg' = v
  /\ UNCHANGED svars
  /\ playFrom' = NoTime
  /\ UNCHANGED <<loading, data, isPlaying, activeLineIndex, timerRef, scheduled, startTime,
                 due, now, dirtyTimer>>
  /\ UNCHANGED tvars

\* bug variant: the call is issued without raising the in-flight flag
HandleTranslate_NoFlag(index) ==
  LET text == data.parsed_json[index + 1].text
      go == ShouldTranslate(translations, isTranslating, text, index)
  IN /\ go => lineIssued + wordIssued < MaxCalls
     /\ lineOutcome' = (IF go THEN "sent" ELSE "blank")
     /\ isTranslating' = isTranslating
     /\ lineCalls' = (IF go
                      THEN lineCalls \cup {[id |-> lineIssued + 1, index |-> index,
                                            text |-> text]}
                      ELSE lineCalls)
     /\ lineIssued' = (IF go THEN lineIssued + 1 ELSE lineIssued)

\* handleTranslate, as far as its await: the early returns, then the call
HandleTranslate(index) ==
  LET text == data.parsed_json[index + 1].text
      go == ShouldTranslate(translations, isTranslating, text, index)
  IN /\ go => lineIssued + wordIssued < MaxCalls
     /\ lineOutcome' = (IF go THEN "sent"
                        ELSE IF Truthy(translations, index) THEN "cached"
                        ELSE IF isTranslating THEN "busy"
                        ELSE "blank")
     /\ isTranslating' = (IF go THEN TRUE ELSE isTranslating)
     /\ lineCalls' = (IF go
                      THEN lineCalls \cup {[id |-> lineIssued + 1, index |-> index,
                                            text |-> text]}
                      ELSE lineCalls)
     /\ lineIssued' = (IF go THEN lineIssued + 1 ELSE lineIssued)

\* handleJumpToLine
HandleJumpToLine(index) ==
  /\ Settled /\ ControlsShown
  /\ currentTime' = JumpTime(data.parsed_json, index)
  /\ activeLineIndex' = index
  /\ dirtyActive' = (currentTime' # currentTime \/ activeLineIndex' # activeLineIndex)
  /\ lastOp' = "jump"
  /\ opArg' = index
  /\ UNCHANGED svars
  /\ playFrom' = NoTime
  /\ selectedWord' = <<>>
  /\ selectedCall' = 0
  /\ HandleTranslate(index)
  /\ UNCHANGED <<loading, data, isPlaying, timerRef, scheduled, startTime, due, now, dirtyTimer>>
  /\ UNCHANGED <<translations, wordTranslation, isTranslatingWord, wordCalls,
                 wordIssued, heldCall>>

\* the interval callback
Tick ==
  /\ Settled /\ timerRef /\ now >= due
  /\ LET elapsed == TickElapsed(now, startTime)
         total == TotalDuration(data)
     IN /\ currentTime' = TickTime(elapsed, total)
        /\ isPlaying' = (IF TickStops(elapsed, total) THEN FALSE ELSE isPlaying)
        /\ timerRef' = ~TickStops(elapsed, total)
        /\ scheduled' = IF TickStops(elapsed, total) THEN scheduled - 1 ELSE scheduled
        /\ due' = IF TickStops(elapsed, total) THEN 0 ELSE now + TickInterval
  /\ dirtyTimer' = (isPlaying' # isPlaying)
  /\ dirtyActive' = (currentTime' # currentTime)
  /\ lastOp' = "tick"
  /\ lineOutcome' = "none"
  /\ opArg' = NoTime
  /\ UNCHANGED svars
  /\ UNCHANGED <<loading, data, activeLineIndex, startTime, now, playFrom>>
  /\ UNCHANGED tvars

\* the wall clock moves on by one tick period
AdvanceTime ==
  /\ Settled
  /\ now + TickInterval <= MaxPeriods * TickInterval
  /\ now' = now + TickInterval
  /\ UNCHANGED <<loading, data, isPlaying, currentTime, activeLineIndex, timerRef, scheduled,
                 startTime, due, dirtyTimer, dirtyActive, lastOp, opArg, lineOutcome, playFrom>>
  /\ UNCHANGED svars
  /\ UNCHANGED tvars

\* bug variant: the cleanup leaves the interval scheduled
Cleanup_Leaks(count, held) == [count |-> count, held |-> held]

\* the cleanup of the timer effect: clearInterval of the interval the ref
\* holds, if it is still scheduled
Cleanup(count, held) == [count |-> IF held THEN count - 1 ELSE count, held |-> FALSE]

\* bug variant: the effect never cancels the interval it scheduled (the
\* intervals left behind are counted up to two)
TimerEffect_KeepsInterval ==
  /\ dirtyTimer
  /\ timerRef' = (timerRef \/ isPlaying)
  /\ scheduled' = IF isPlaying /\ scheduled < 2 THEN scheduled + 1 ELSE scheduled
  /\ startTime' = IF isPlaying THEN PlayOrigin(now, currentTime) ELSE startTime
  /\ due' = IF isPlaying THEN now + TickInterval ELSE due
  /\ dirtyTimer' = FALSE
  /\ UNCHANGED <<loading, data, isPlaying, currentTime, activeLineIndex, now,
                 dirtyActive, lastOp, opArg, lineOutcome, playFrom>>
  /\ UNCHANGED svars
  /\ UNCHANGED tvars

\* the timer effect: cleanup of the previous run, then the body, which
\* schedules an interval when playing and else clears the one the ref holds
TimerEffect ==
  /\ dirtyTimer
  /\ LET cleaned == Cleanup(scheduled, timerRef)
     IN /\ timerRef' = isPlaying
        /\ scheduled' = IF isPlaying THEN cleaned.count + 1
                        ELSE IF cleaned.held THEN cleaned.count - 1
                        ELSE cleaned.count
  /\ startTime' = IF isPlaying THEN PlayOrigin(now, currentTime) ELSE 0
  /\ due' = IF isPlaying THEN now + TickInterval ELSE 0
  /\ dirtyTimer' = FALSE
  /\ UNCHANGED <<loading, data, isPlaying, currentTime, activeLineIndex, now,
                 dirtyActive, lastOp, opArg, lineOutcome, playFrom>>
  /\ UNCHANGED svars
  /\ UNCHANGED tvars

\* the active-line effect (the resolver)
ActiveLineEffect ==
  /\ dirtyActive /\ ~dirtyTimer
  /\ activeLineIndex' = IF data.present
                        THEN ActiveLineNext(data.parsed_json, currentTime, activeLineIndex)
                        ELSE activeLineIndex
  /\ dirtyActive' = (activeLineIndex' # activeLineIndex)
  /\ UNCHANGED <<loading, data, isPlaying, currentTime, timerRef, scheduled, startTime, due, now,
                 dirtyTimer, lastOp, opArg, lineOutcome, playFrom>>
  /\ UNCHANGED svars
  /\ UNCHANGED tvars

\* the line call settles with a reply: try block, then finally
LineTranslateDone(call, reply) ==
  /\ Settled /\ call \in lineCalls
  /\ translations' = StoreTranslation(translations, call.index, ReplyText(reply))
  /\ isTranslating' = FALSE
  /\ lineCalls' = lineCalls \ {call}
  /\ lastOp' = "lineDone"
  /\ lineOutcome' = "none"
  /\ opArg' = NoTime
  /\ UNCHANGED svars
  /\ UNCHANGED <<loading, data>>
  /\ UNCHANGED pvars
  /\ UNCHANGED <<selectedWord, wordTranslation, isTranslatingWord, wordCalls,
                 lineIssued, wordIssued, selectedCall, heldCall>>

\* bug variant: a failed line call leaves the in-flight flag raised
LineTranslateFail_KeepsFlag(call) ==
  /\ Settled /\ call \in lineCalls
  /\ lineCalls' = lineCalls \ {call}
  /\ lastOp' = "lineFail"
  /\ lineOutcome' = "none"
  /\ opArg' = NoTime
  /\ UNCHANGED svars
  /\ UNCHANGED <<loading, data>>
  /\ UNCHANGED pvars
  /\ UNCHANGED <<translations, isTranslating, selectedWord, wordTranslation,
                 isTranslatingWord, wordCalls, lineIssued, wordIssued, selectedCall,
                 heldCall>>

\* the line call settles with an error: catch block, then finally
LineTranslateFail(call) ==
  /\ Settled /\ call \in lineCalls
  /\ isTranslating' = FALSE
  /\ lineCalls' = lineCalls \ {call}
  /\ lastOp' = "lineFail"
  /\ lineOutcome' = "none"
  /\ opArg' = NoTime
  /\ UNCHANGED svars
  /\ UNCHANGED <<loading, data>>
  /\ UNCHANGED pvars
  /\ UNCHANGED <<translations, selectedWord, wordTranslation, isTranslatingWord,
                 wordCalls, lineIssued, wordIssued, selectedCall, heldCall>>

\* bug variant: the click on a word also reaches the line and moves the clock
\* to it
HandleWordClick_Bubbles(word, lineIndex) ==
  /\ Settled /\ ControlsShown
  /\ LET cleanWord == CleanWord(word)
     IN IF cleanWord = <<>>
        THEN /\ lastOp' = "wordEmpty"
             /\ lineOutcome' = "none"
             /\ UNCHANGED <<selectedWord, isTranslatingWord, wordTranslation, wordCalls,
                            wordIssued, selectedCall, heldCall>>
        ELSE /\ lineIssued + wordIssued < MaxCalls
             /\ selectedWord' = << [text |-> cleanWord, lineIndex |-> lineIndex] >>
             /\ isTranslatingWord' = TRUE
             /\ wordTranslation' = <<>>
             /\ wordCalls' = wordCalls \cup {[id |-> wordIssued + 1, word |-> cleanWord,
                                              lineIndex |-> lineIndex]}
             /\ wordIssued' = wordIssued + 1
             /\ selectedCall' = wordIssued + 1
             /\ heldCall' = 0
             /\ lastOp' = "word"
             /\ lineOutcome' = "none"
  /\ currentTime' = JumpTime(data.parsed_json, lineIndex)
  /\ activeLineIndex' = lineIndex
  /\ dirtyActive' = (currentTime' # currentTime \/ activeLineIndex' # activeLineIndex)
  /\ opArg' = NoTime
  /\ UNCHANGED svars
  /\ UNCHANGED <<loading, data>>
  /\ UNCHANGED <<isPlaying, timerRef, scheduled, startTime, due, now, dirtyTimer, playFrom>>
  /\ UNCHANGED <<translations, isTranslating, lineCalls, lineIssued>>

\* handleWordClick, as far as its await
HandleWordClick(word, lineIndex) ==
  /\ Settled /\ ControlsShown
  /\ LET cleanWord == CleanWord(word)
     IN IF cleanWord = <<>>
        THEN /\ lastOp' = "wordEmpty"
             /\ lineOutcome' = "none"
             /\ UNCHANGED <<selectedWord, isTranslatingWord, wordTranslation, wordCalls,
                            wordIssued, selectedCall, heldCall>>
        ELSE /\ lineIssued + wordIssued < MaxCalls
             /\ selectedWord' = << [text |-> cleanWord, lineIndex |-> lineIndex] >>
             /\ isTranslatingWord' = TRUE
             /\ wordTranslation' = <<>>
             /\ wordCalls' = wordCalls \cup {[id |-> wordIssued + 1, word |-> cleanWord,
                                              lineIndex |-> lineIndex]}
             /\ wordIssued' = wordIssued + 1
             /\ selectedCall' = wordIssued + 1
             /\ heldCall' = 0
             /\ lastOp' = "word"
             /\ lineOutcome' = "none"
  /\ opArg' = NoTime
  /\ UNCHANGED svars
  /\ UNCHANGED <<loading, data>>
  /\ UNCHANGED pvars
  /\ UNCHANGED <<translations, isTranslating, lineCalls, lineIssued>>

\* the word call settles with a reply: try block, then finally
WordTranslateDone(call, reply) ==
  /\ Settled /\ call \in wordCalls
  /\ wordTranslation' = << ReplyText(reply) >>
  /\ heldCall' = call.id
  /\ isTranslatingWord' = FALSE
  /\ wordCalls' = wordCalls \ {call}
  /\ lastOp' = "wordDone"
  /\ lineOutcome' = "none"
  /\ opArg' = NoTime
  /\ UNCHANGED svars
  /\ UNCHANGED <<loading, data>>
  /\ UNCHANGED pvars
  /\ UNCHANGED <<translations, isTranslating, selectedWord, lineCalls, lineIssued,
                 wordIssued, selectedCall>>

\* the word call settles with an error: catch block, then finally
WordTranslateFail(call) ==
  /\ Settled /\ call \in wordCalls
  /\ isTranslatingWord' = FALSE
  /\ wordCalls' = wordCalls \ {call}
  /\ lastOp' = "wordFail"
  /\ lineOutcome' = "none"
  /\ opArg' = NoTime
  /\ UNCHANGED svars
  /\ UNCHANGED <<loading, data>>
  /\ UNCHANGED pvars
  /\ UNCHANGED <<translations, isTranslating, selectedWord, wordTranslation, lineCalls,
                 lineIssued, wordIssued, selectedCall, heldCall>>

\* the close button of the word panel
CloseWord ==
  /\ Settled /\ ControlsShown /\ selectedWord # <<>>
  /\ selectedWord' = <<>>
  /\ selectedCall' = 0
  /\ lastOp' = "closeWord"
  /\ lineOutcome' = "none"
  /\ opArg' = NoTime
  /\ UNCHANGED svars
  /\ UNCHANGED <<loading, data>>
  /\ UNCHANGED pvars
  /\ UNCHANGED <<translations, isTranslating, wordTranslation, isTranslatingWord,
                 lineCalls, wordCalls, lineIssued, wordIssued, heldCall>>

Next ==
  \/ FetchData
  \/ TogglePlay
  \/ ResetPlayback
  \/ \E v \in SliderValues(TotalDuration(data)) : Seek(v)
  \/ \E index \in 0..(Len(data.parsed_json) - 1) : HandleJumpToLine(index)
  \/ Tick
  \/ AdvanceTime
  \/ TimerEffect
  \/ ActiveLineEffect

Spec == Init /\ [][Next]_vars

\* the translation requests of a reader whose clock stays stopped
NextTranslate ==
  \/ FetchDataText
  \/ \E index \in 0..(Len(data.parsed_json) - 1) : HandleJumpToLine(index)
  \/ TimerEffect
  \/ ActiveLineEffect
  \/ \E call \in lineCalls : \E reply \in Replies : LineTranslateDone(call, reply)
  \/ \E call \in lineCalls : LineTranslateFail(call)
  \/ \E lineIndex \in 0..(Len(data.parsed_json) - 1) :
       \E word \in WordsOf(data.parsed_json[lineIndex + 1].text) :
         HandleWordClick(word, lineIndex)
  \/ \E call \in wordCalls : \E reply \in Replies : WordTranslateDone(call, reply)
  \/ \E call \in wordCalls : WordTranslateFail(call)
  \/ CloseWord

SpecTranslate == Init /\ [][NextTranslate]_vars

\* a reader whose document is replaced while it is playing and translating,
\* followed until the first interval callback is due
NextSession ==
  \/ FetchDataText
  \/ ReplaceDocument
  \/ TogglePlay
  \/ \E index \in 0..(Len(data.parsed_json) - 1) : HandleJumpToLine(index)
  \/ TimerEffect
  \/ ActiveLineEffect
  \/ \E call \in lineCalls : \E reply \in Replies : LineTranslateDone(call, reply)
  \/ \E lineIndex \in 0..(Len(data.parsed_json) - 1) :
       \E word \in WordsOf(data.parsed_json[lineIndex + 1].text) :
         HandleWordClick(word, lineIndex)
  \/ \E call \in wordCalls : \E reply \in Replies : WordTranslateDone(call, reply)

SpecSession == Init /\ [][NextSession]_vars

\* a POST /api/subtitles/upload request reaches the server
ReceiveUpload(req) ==
  /\ request = <<>>
  /\ request' = << req >>
  /\ UNCHANGED <<rows, response>>
  /\ UNCHANGED rvars

\* the upload handler: the row is inserted and 200 answered, or the insert
\* throws and the catch block answers 500; without a file 400 is answered
UploadHandler ==
  /\ request # <<>> /\ response = 0
  /\ LET req == request[1]
         content == Decode(req.buffer)
         parsed == ParseSubtitles(content, req.ext)
     IN IF ~req.hasFile
        THEN response' = 400 /\ rows' = rows
        ELSE \E inserted \in BOOLEAN :
               IF inserted
               THEN /\ rows' = Append(rows, [content |-> content, parsed_json |-> parsed])
                    /\ response' = 200
               ELSE rows' = rows /\ response' = 500
  /\ UNCHANGED request
  /\ UNCHANGED rvars

\* one upload handled by the server
NextParse ==
  \/ \E req \in Requests : ReceiveUpload(req)
  \/ UploadHandler

SpecParse == Init /\ [][NextParse]_vars

\* a reader whose words are selected and whose lines are clicked while its
\* clock runs
NextReader ==
  \/ FetchDataFrom(WordDocuments)
  \/ TogglePlay
  \/ \E v \in SliderValues(TotalDuration(data)) : Seek(v)
  \/ \E index \in 0..(Len(data.parsed_json) - 1) : HandleJumpToLine(index)
  \/ Tick
  \/ AdvanceTime
  \/ TimerEffect
  \/ ActiveLineEffect
  \/ \E call \in lineCalls : \E reply \in Replies : LineTranslateDone(call, reply)
  \/ \E lineIndex \in 0..(Len(data.parsed_json) - 1) :
       \E word \in WordsOf(data.parsed_json[lineIndex + 1].text) :
         HandleWordClick(word, lineIndex)
  \/ \E call \in wordCalls : \E reply \in Replies : WordTranslateDone(call, reply)

SpecReader == Init /\ [][NextReader]_vars

\* the playback clock of a document of one long cue
NextClock ==
  \/ FetchDataFrom(LongDocuments)
  \/ TogglePlay
  \/ \E v \in SliderValues(TotalDuration(data)) : Seek(v)
  \/ Tick
  \/ AdvanceTime
  \/ TimerEffect
  \/ ActiveLineEffect

SpecClock == Init /\ [][NextClock]_vars

\* the reader is closed (onBack): the cleanup of the timer effect runs and the
\* component's state is discarded.  The state variables are from then on
\* those of the reader that is mounted next; the wall clock and the browser's
\* intervals are not the component's and stay.
Unmount ==
  /\ Settled /\ ~loading
  /\ scheduled' = Cleanup(scheduled, timerRef).count
  /\ loading' = TRUE
  /\ data' = NullData
  /\ isPlaying' = FALSE
  /\ currentTime' = 0
  /\ activeLineIndex' = NullIndex
  /\ timerRef' = FALSE
  /\ startTime' = 0
  /\ due' = 0
  /\ dirtyTimer' = FALSE
  /\ dirtyActive' = FALSE
  /\ lastOp' = "unmount"
  /\ lineOutcome' = "none"
  /\ opArg' = NoTime
  /\ playFrom' = NoTime
  /\ translations' = NoTranslations
  /\ isTranslating' = FALSE
  /\ selectedWord' = <<>>
  /\ wordTranslation' = <<>>
  /\ isTranslatingWord' = FALSE
  /\ lineCalls' = {}
  /\ wordCalls' = {}
  /\ lineIssued' = 0
  /\ wordIssued' = 0
  /\ selectedCall' = 0
  /\ heldCall' = 0
  /\ UNCHANGED now
  /\ UNCHANGED svars

\* the playback clock of readers that are opened and closed
NextMount ==
  \/ Next
  \/ Unmount

SpecMount == Init /\ [][NextMount]_vars

\* Spec with the scheduling of the browser.  An effect whose dependencies
\* changed runs before anything else is handled.  A scheduled interval
\* callback that is due fires, and the wall clock moves on (as far as the
\* model follows it), however many events of the user are handled meanwhile:
\* an event handler only delays them for the time it runs.
SpecAutoStop ==
  /\ Init /\ [][Next]_vars
  /\ WF_vars(TimerEffect) /\ WF_vars(ActiveLineEffect)
  /\ SF_vars(Tick) /\ SF_vars(AdvanceTime)

\* ---- vocabulary of the properties ----
Lines == data.parsed_json

Total == TotalDuration(data)

\* cue i (0-based) holds t in its inclusive [start, end] interval
CueHolds(i, t) ==
  /\ TimeToSeconds(Lines[i + 1].start) <= t
  /\ t <= TimeToSeconds(Lines[i + 1].end)

NoCueHolds(t) == \A i \in 0..(Len(Lines) - 1) : ~CueHolds(i, t)

\* cue i is the first cue in sequence order that holds t
FirstCueHolding(i, t) == CueHolds(i, t) /\ \A j \in 0..(i - 1) : ~CueHolds(j, t)

Clamp(t, lo, hi) == IF t < lo THEN lo ELSE IF t > hi THEN hi ELSE t

\* C1: gap retention. While the last operation is a tick or a slider seek and
\* the elapsed time it stored lies in no cue's inclusive interval, no step (the
\* handler itself, the resolver run after it) changes activeLineIndex: it is
\* neither cleared nor moved to another cue.
C1_GapRetention ==
  [][(lastOp' \in {"tick", "seek"} /\ data'.present /\ NoCueHolds(currentTime)')
       => activeLineIndex' = activeLineIndex]_vars

\* C1 witness: a tick has landed in a gap, the resolver has run, and the line
\* that was active before is still the active one.
C1_Witness ==
  /\ lastOp = "tick" /\ Settled /\ isPlaying
  /\ Len(Lines) = 2 /\ NoCueHolds(currentTime)
  /\ currentTime > 0 /\ currentTime < Total
  /\ activeLineIndex = 0

\* C2: active-cue resolution. Once the resolver has settled after a tick or a
\* slider seek, if some cue holds the elapsed time then activeLineIndex is the
\* smallest index of such a cue (the first of overlapping cues wins).
C2_FirstContainingCue ==
  (Settled /\ lastOp \in {"tick", "seek"} /\ data.present)
    => \A i \in 0..(Len(Lines) - 1) :
         FirstCueHolding(i, currentTime) => activeLineIndex = i

\* C2 witness: two overlapping cues both hold the elapsed time a tick stored,
\* and the first one is active.
C2_Witness ==
  /\ Settled /\ lastOp = "tick" /\ data.present /\ Len(Lines) = 2
  /\ CueHolds(0, currentTime) /\ CueHolds(1, currentTime)
  /\ currentTime > 0
  /\ activeLineIndex = 0
\* C3 as stated: after jumping to cue i and letting the resolver run, the
\* elapsed time is cue[i].start + 0.01 and the active line is i, for every
\* cue sequence and every index.
C3_JumpActivatesCue ==
  (lastOp = "jump" /\ Settled)
    => /\ currentTime = TimeToSeconds(Lines[opArg + 1].start) + JumpOffset
       /\ activeLineIndex = opArg

\* C3 amended: after jumping to cue i and letting the resolver run, the
\* elapsed time is cue[i].start + 0.01 and the active line is the first cue in
\* sequence order that holds that time, or i when no cue holds it.
C3_JumpResolves ==
  (lastOp = "jump" /\ Settled)
    => /\ currentTime = TimeToSeconds(Lines[opArg + 1].start) + JumpOffset
       /\ \A i \in 0..(Len(Lines) - 1) :
            FirstCueHolding(i, currentTime) => activeLineIndex = i
       /\ NoCueHolds(currentTime) => activeLineIndex = opArg

\* C3 witness: the jump went to cue 1, which holds start + 0.01 while the
\* earlier cue does not, and cue 1 is the active line.
C3_Witness ==
  /\ lastOp = "jump" /\ Settled /\ opArg = 1
  /\ CueHolds(1, currentTime) /\ ~CueHolds(0, currentTime)
  /\ activeLineIndex = 1

\* C4: once the effects triggered by reset() have settled, elapsed is 0,
\* playback is stopped and no line is active.
C4_ResetSettled ==
  (lastOp = "reset" /\ Settled)
    => (currentTime = 0 /\ ~isPlaying /\ activeLineIndex = NullIndex)

\* C5: in every reachable state 0 <= elapsed <= totalDuration.
C5_ElapsedInRange == 0 <= currentTime /\ currentTime <= Total

TickStep == Settled /\ timerRef /\ now' = now /\ lastOp' = "tick"

\* C7: auto-stop without overshoot. A tick whose recomputed elapsed time
\* (wall clock minus origin) is >= totalDuration stops playback and stores
\* totalDuration exactly; no tick stores more than totalDuration.
C7_AutoStopNoOvershoot ==
  [][TickStep
       => /\ currentTime' <= Total
          /\ (now - startTime >= Total) => (~isPlaying' /\ currentTime' = Total)]_vars

\* C7 witness: a tick recomputed an elapsed time strictly beyond
\* totalDuration, and playback is stopped exactly at totalDuration.
C7_Witness ==
  /\ lastOp = "tick" /\ dirtyTimer
  /\ now - startTime > Total /\ Total > 0
  /\ ~isPlaying /\ currentTime = Total

\* C8: the slider seek is accepted while stopped and while playing; it stores
\* its value clamped into [0, totalDuration] and leaves isPlaying as it was,
\* through the handler and the effects that follow it.
C8_SeekClampsKeepsPlaying ==
  [][lastOp' = "seek"
       => /\ currentTime' = Clamp(opArg', 0, Total)
          /\ isPlaying' = isPlaying]_vars

\* C8 witness: a seek to a later position was made while playing, and playback
\* is still running at the sought position.
C8_Witness ==
  /\ lastOp = "seek" /\ Settled /\ isPlaying /\ timerRef
  /\ opArg > 0 /\ currentTime = opArg

\* C9: after play() from elapsed e, every tick until the next pause, seek or
\* reset stores an elapsed time >= e.
C9_TickNotBeforePlay ==
  (lastOp = "tick" /\ playFrom # NoTime) => currentTime >= playFrom

\* C10: while playback is stopped, elapsed changes only in the slider seek,
\* seek-to-cue or reset handlers: neither the passing of wall-clock time nor a
\* late interval callback changes it.
C10_StoppedFreezesElapsed ==
  [][(~isPlaying /\ currentTime' # currentTime)
       => (Settled /\ lastOp' \in {"seek", "jump", "reset"})]_vars

\* C10 witness: playback was paused part-way, the interval is cancelled and
\* the wall clock has moved on past the frozen elapsed time.
C10_Witness ==
  /\ lastOp = "pause" /\ Settled /\ ~isPlaying /\ ~timerRef
  /\ currentTime > 0 /\ currentTime < Total
  /\ now > currentTime
\* ---- vocabulary of the translation properties ----
\* a step of handleJumpToLine, the only caller of handleTranslate
JumpStep == Settled /\ lastOp' = "jump"

\* the cue text handleTranslate would send for index i
LineText(i) == Lines[i + 1].text

\* a line call for index i has not settled yet
LineCallFor(i) == \E c \in lineCalls : c.index = i

\* C11: a request for the line translation of index i made while the call
\* of an earlier request for the same i has not settled issues no call, so
\* the two requests issue exactly one outbound call.
C11_SecondRequestSameIndex ==
  [][(JumpStep /\ LineCallFor(opArg'))
       => (lineCalls' = lineCalls /\ lineIssued' = lineIssued)]_vars

\* C11 witness: the request was turned away as busy while the one call in
\* flight is the call for the same index.
C11_Witness ==
  /\ lastOp = "jump" /\ lineOutcome = "busy"
  /\ LineCallFor(opArg) /\ Cardinality(lineCalls) = 1 /\ lineIssued = 1

\* C12: in every reachable state at most one line translation call is
\* outstanding, whichever indices were requested while it was in flight.
C12_OneLineCallOutstanding == Cardinality(lineCalls) <= 1

\* C12 witness: a request for another index was turned away as busy while a
\* line call is in flight.
C12_Witness ==
  /\ lastOp = "jump" /\ lineOutcome = "busy"
  /\ Cardinality(lineCalls) = 1 /\ ~LineCallFor(opArg)

\* C13: once a line call for index i has succeeded, whatever text it
\* returned, no later request for i issues an outbound call.
C13_SucceededNeverReissued ==
  [][(JumpStep /\ translations[opArg'] # <<>>) => lineIssued' = lineIssued]_vars

\* C14: an entry of the line translation record, once stored, keeps its
\* value in every later state of the loaded document.
C14_AppendOnly ==
  [][\A i \in DOMAIN translations :
       translations[i] # <<>> => translations'[i] = translations[i]]_vars

\* C15: when the line call for index i fails, the record of translations is
\* left as it was with no entry for i, the playback state is left as it was,
\* and a later request for i issues a new call.
C15_FailureLeavesNoEntry ==
  [][/\ (Settled /\ lastOp' = "lineFail")
          => /\ translations' = translations
             /\ \A c \in lineCalls \ lineCalls' : translations'[c.index] = <<>>
             /\ pvars' = pvars
             /\ ~isTranslating'
     /\ (JumpStep /\ ~isTranslating /\ translations[opArg'] = <<>>
           /\ Trim(LineText(opArg')) # <<>>)
          => lineIssued' = lineIssued + 1]_vars

\* C16: whenever a word translation is held together with a selected word,
\* it is the reply to the call issued for that selection.
C16_HeldResultOfSelection ==
  (selectedWord # <<>> /\ wordTranslation # <<>>) => heldCall = selectedCall

\* C17: a word request whose (cue index, normalized word) key has a call
\* still in flight issues no new call.
C17_WordCallsCoalesced ==
  [][\A c \in wordCalls' \ wordCalls :
       \A d \in wordCalls : ~(d.word = c.word /\ d.lineIndex = c.lineIndex)]_vars

\* C18: a word request never changes the line in-flight flag, the record of
\* line translations or the outstanding line calls, whether or not a line call
\* is in flight; and a line request that nothing but an in-flight word call
\* could hold back issues its call.
C18_WordAndLineIndependent ==
  [][/\ (Settled /\ lastOp' \in {"word", "wordEmpty"})
          => /\ isTranslating' = isTranslating
             /\ translations' = translations
             /\ lineCalls' = lineCalls
     /\ (JumpStep /\ ~isTranslating /\ translations[opArg'] = <<>>
           /\ Trim(LineText(opArg')) # <<>>)
          => /\ lineIssued' = lineIssued + 1
             /\ isTranslatingWord' = isTranslatingWord
             /\ wordCalls' = wordCalls]_vars

\* C18 witness: a line request has just issued its call while a word call is
\* in flight, so one line call and one word call are outstanding together.
C18_Witness ==
  /\ lastOp = "jump" /\ lineOutcome = "sent"
  /\ isTranslating /\ isTranslatingWord
  /\ Cardinality(lineCalls) = 1 /\ Cardinality(wordCalls) = 1

\* C19: no line call carries a text that trims to empty, and a request for a
\* cue whose text trims to empty leaves the in-flight flag, the record of
\* translations and the calls as they were.
C19_BlankNeverSent ==
  [][/\ \A c \in lineCalls' : Trim(c.text) # <<>>
     /\ (JumpStep /\ Trim(LineText(opArg')) = <<>>)
          => /\ isTranslating' = isTranslating
             /\ translations' = translations
             /\ lineCalls' = lineCalls
             /\ lineIssued' = lineIssued]_vars

\* C19 witness: a cue of one blank is requested with nothing cached and no
\* call in flight, and the request ends at the blank-text return.
C19_Witness ==
  /\ lastOp = "jump" /\ lineOutcome = "blank"
  /\ LineText(opArg) = <<" ">>
  /\ ~isTranslating /\ lineCalls = {} /\ translations[opArg] = <<>>

\* a character that is neither in the punctuation set nor white space
IsLetter(c) == c \notin Punctuation /\ ~IsSpace(c)

\* C20: a click on a raw word that is empty after removing . , ! ? ; : ( )
\* and trimming leaves the selected word, the held word translation, the word
\* in-flight flag and the word calls as they were; so every word call and
\* every selection carries a word that has a character left.
C20_EmptyWordNoOp ==
  [][/\ (Settled /\ lastOp' = "wordEmpty")
          => UNCHANGED <<selectedWord, wordTranslation, isTranslatingWord,
                         wordCalls, wordIssued>>
     /\ \A c \in wordCalls' : \E k \in 1..Len(c.word) : IsLetter(c.word[k])
     /\ selectedWord' # <<>>
          => \E k \in 1..Len(selectedWord'[1].text) :
               IsLetter(selectedWord'[1].text[k])]_vars

\* C20 witness: a punctuation-only word was clicked while another word is
\* selected and its call in flight, and both are still there.
C20_Witness ==
  /\ lastOp = "wordEmpty"
  /\ selectedWord # <<>> /\ isTranslatingWord /\ wordCalls # {}

\* ---- vocabulary of the session properties ----
\* the line call c was issued for the cue the loaded document has at c.index
LineCallOfDocument(c) == c.index < Len(Lines) /\ LineText(c.index) = c.text

\* the word call c was issued for a word of the cue the loaded document has at
\* c.lineIndex
WordCallOfDocument(c) ==
  /\ c.lineIndex < Len(Lines)
  /\ \E w \in WordsOf(LineText(c.lineIndex)) : CleanWord(w) = c.word

\* C21: loading a different document leaves no entry in the record of line
\* translations and leaves elapsed = 0, playing = false and no active line,
\* whatever the reader was doing with the document before.
C21_LoadResets ==
  [][(Settled /\ lastOp' = "replace")
       => /\ translations' = NoTranslations
          /\ currentTime' = 0
          /\ ~isPlaying'
          /\ activeLineIndex' = NullIndex]_vars

\* C22: a reply that arrives after the document it was requested for has
\* been replaced is stored neither in the record of line translations nor as
\* the word translation of the loaded document.
C22_LateResultDiscarded ==
  [][/\ (Settled /\ lastOp' = "lineDone")
          => \A c \in lineCalls \ lineCalls' :
               LineCallOfDocument(c) \/ translations' = translations
     /\ (Settled /\ lastOp' = "wordDone")
          => \A c \in wordCalls \ wordCalls' :
               WordCallOfDocument(c) \/ wordTranslation' = wordTranslation]_vars

\* ---- vocabulary of the parser properties ----
\* the upload was stored and answered with 200
Handled == response = 200

\* the extension, the source lines and the cues of the handled upload
UploadExt == request[1].ext

SourceLines == SplitLines(rows[Len(rows)].content)

Emitted == rows[Len(rows)].parsed_json

SrtUpload == Handled /\ UploadExt \in { ".srt", ".vtt" }

AssUpload == Handled /\ UploadExt = ".ass"

IsBlank(line) == Trim(line) = <<>>

HasTimecode(line) == TimeMatch(line) # <<>>

\* first lines of the blank-line-delimited blocks of lines
BlockFirsts(lines) ==
  { a \in 1..Len(lines) : ~IsBlank(lines[a]) /\ (a = 1 \/ IsBlank(lines[a - 1])) }

\* last line of the block that begins at line a
BlockLast(lines, a) ==
  CHOOSE b \in a..Len(lines) :
    /\ \A k \in a..b : ~IsBlank(lines[k])
    /\ b = Len(lines) \/ IsBlank(lines[b + 1])

\* the timecode lines of the block that begins at line a
TimecodesOf(lines, a) == { k \in a..BlockLast(lines, a) : HasTimecode(lines[k]) }

\* the blocks that contain a timecode line
TimedBlocks(lines) == { a \in BlockFirsts(lines) : TimecodesOf(lines, a) # {} }

RECURSIVE Ascending(_)
\* the numbers of S in increasing order
Ascending(S) ==
  IF S = {} THEN <<>>
  ELSE LET least == CHOOSE x \in S : \A y \in S : x <= y
       IN << least >> \o Ascending(S \ { least })

\* positions of the commas of line, in increasing order
Commas(line) == Ascending({ i \in 1..Len(line) : line[i] = "," })

\* the comma-separated field n (0-based) of line
Field(line, n) ==
  LET cs == Commas(line)
      from == IF n = 0 THEN 1 ELSE cs[n] + 1
      to == IF n < Len(cs) THEN cs[n + 1] - 1 ELSE Len(line)
  IN SubSeq(line, from, to)

\* what follows comma number n of line
AfterComma(line, n) == SubSeq(line, Commas(line)[n] + 1, Len(line))

\* a line the .ass rule accepts
ValidDialogue(line) ==
  StartsWith(line, DialoguePrefix) /\ Len(Commas(line)) >= MinFields - 1

\* no "{" of text has a "}" after it
NoSpanLeft(text) ==
  \A i \in 1..Len(text) : text[i] = "{" => \A j \in (i + 1)..Len(text) : text[j] # "}"

HiThere == <<"H", "i", " ", "t", "h", "e", "r", "e">>

\* start and end of every cue, in sequence order
TimesOf(cues) == [k \in 1..Len(cues) |-> << cues[k].start, cues[k].end >>]

\* start and end written by the timecode line that is the last of its block
BlockTimes(lines, a) ==
  LET k == CHOOSE x \in TimecodesOf(lines, a) : \A y \in TimecodesOf(lines, a) : y <= x
      groups == TimeMatch(lines[k])
  IN << ReplaceComma(groups[1]), ReplaceComma(groups[2]) >>

\* start and end of the source's timed blocks, in source order
SrtSourceTimes(lines) ==
  LET firsts == Ascending(TimedBlocks(lines))
  IN [k \in 1..Len(firsts) |-> BlockTimes(lines, firsts[k])]

\* start and end fields of the source's accepted Dialogue lines, in source order
AssSourceTimes(lines) ==
  LET valid == SelectSeq(lines, ValidDialogue)
  IN [k \in 1..Len(valid) |-> << Field(valid[k], 1), Field(valid[k], 2) >>]

\* C23: for .srt/.vtt input the number of emitted cues equals the number of
\* blank-line-delimited blocks that contain a line matching the timecode
\* pattern.
C23_CuesPerTimedBlock ==
  SrtUpload => Len(Emitted) = Cardinality(TimedBlocks(SourceLines))

\* C23 witness: an upload of two timed blocks was parsed into two cues.
C23_Witness ==
  /\ SrtUpload /\ Len(Emitted) = 2
  /\ Cardinality(TimedBlocks(SourceLines)) = 2

\* C24: every emitted cue, for every input text and extension, has text that
\* is non-empty after trimming.
C24_NoEmptyText ==
  Handled => \A k \in 1..Len(Emitted) : Trim(Emitted[k].text) # <<>>

\* C25: every emitted cue, for every input text, has start <= end in seconds.
C25_StartNotAfterEnd ==
  Handled => \A k \in 1..Len(Emitted) :
               SecondsOf(Emitted[k].start) <= SecondsOf(Emitted[k].end)

\* C26: the cues of every emitted sequence are in non-decreasing start order,
\* and the last cue's end is the largest time any cue reaches.
C26_NonDecreasingStarts ==
  Handled =>
    /\ \A j, k \in 1..Len(Emitted) :
         j <= k => SecondsOf(Emitted[j].start) <= SecondsOf(Emitted[k].start)
    /\ \A k \in 1..Len(Emitted) :
         SecondsOf(Emitted[k].end) <= SecondsOf(Emitted[Len(Emitted)].end)

\* C26 amended: the cues are emitted in the order of their source blocks or
\* Dialogue lines, each with the start and end its own block or line wrote;
\* the parser does not sort them, so their start order is the source's.
C26_SourceOrder ==
  /\ SrtUpload => TimesOf(Emitted) = SrtSourceTimes(SourceLines)
  /\ AssUpload => TimesOf(Emitted) = AssSourceTimes(SourceLines)

\* C26 witness: two blocks whose starts decrease were emitted in source order.
C26_Witness ==
  /\ SrtUpload /\ Len(Emitted) = 2
  /\ SecondsOf(Emitted[1].start) > SecondsOf(Emitted[2].start)

\* C27: for .ass input every line that begins with Dialogue: and has at
\* least 10 comma-separated fields yields exactly one cue, with start field 1,
\* end field 2 and as text what follows the ninth comma with every {...} span
\* removed (shortest match) and trimmed; the example line yields "Hi there".
C27_DialogueCue ==
  AssUpload =>
    LET valid == SelectSeq(SourceLines, ValidDialogue)
    IN /\ Len(Emitted) = Len(valid)
       /\ \A k \in 1..Len(valid) :
            /\ Emitted[k].start = Field(valid[k], 1)
            /\ Emitted[k].end = Field(valid[k], 2)
            /\ Emitted[k].text = Trim(RemoveTags(AfterComma(valid[k], MinFields - 1)))
            /\ NoSpanLeft(Emitted[k].text)
            /\ valid[k] = AssLine1 => Emitted[k].text = HiThere

\* C27 witness: the example line was parsed, after a line with a comma and
\* nested braces in its text.
C27_Witness ==
  /\ AssUpload /\ Len(Emitted) = 2
  /\ SourceLines[1] = AssLine4 /\ Emitted[2].text = HiThere

\* C28: for .ass input a line that does not begin with Dialogue: or has fewer
\* than 10 fields contributes no cue, and the lines after it are parsed: the
\* cues are those of the accepted lines alone.
C28_OtherLinesSkipped ==
  AssUpload =>
    /\ Emitted = AssFold(<<>>, SelectSeq(SourceLines, ValidDialogue))
    /\ (\A k \in 1..Len(SourceLines) : ~ValidDialogue(SourceLines[k])) => Emitted = <<>>

\* C28 witness: a Dialogue line of 9 fields and a Comment line were skipped
\* and the Dialogue line after them was parsed.
C28_Witness ==
  /\ AssUpload /\ Len(SourceLines) = 3
  /\ SourceLines[1] = AssLine2 /\ SourceLines[2] = AssLine5
  /\ ValidDialogue(SourceLines[3]) /\ Len(Emitted) = 1

\* C29: for an extension other than .srt, .vtt and .ass the parser emits the
\* empty cue sequence for every input text, and the upload is handled.
C29_UnknownExtensionEmpty ==
  (Handled /\ UploadExt \notin { ".srt", ".vtt", ".ass" }) => Emitted = <<>>

\* C29 witness: a text with a timecode line was uploaded as .txt and stored
\* with no cue.
C29_Witness ==
  /\ Handled /\ UploadExt = ".txt" /\ Emitted = <<>>
  /\ \E k \in 1..Len(SourceLines) : HasTimecode(SourceLines[k])

\* C30: an upload whose buffer is empty is rejected and stores no document.
C30_EmptyBufferRejected ==
  /\ \A k \in 1..Len(rows) : rows[k].content # <<>>
  /\ (request # <<>> /\ request[1].hasFile /\ request[1].buffer = <<>>)
       => response # 200

\* ---- the clock, the interval and the calls in flight ----
\* C31: after a slider seek or a seek-to-cue made while playing, the first
\* interval callback that follows (no pause, seek or reset in between) stores
\* an elapsed time >= the sought position, or stops playback at
\* totalDuration: playback continues from the sought position.
C31_PlaysOnFromSought ==
  [][(TickStep /\ lastOp \in {"seek", "jump"})
       => \/ currentTime' >= currentTime
          \/ (currentTime' = Total /\ ~isPlaying')]_vars

\* last wall-clock time the model follows
Horizon == MaxPeriods * TickInterval

\* the origin and the first callback time of the interval that is scheduled,
\* or that the pending timer effect is about to schedule
Origin == IF dirtyTimer THEN PlayOrigin(now, currentTime) ELSE startTime

FirstDue == IF dirtyTimer THEN now + TickInterval ELSE due

\* the running clock ends at a wall-clock time the model follows
EndsInHorizon ==
  \E k \in 0..MaxPeriods :
    /\ k * TickInterval >= FirstDue /\ k * TickInterval >= now
    /\ TickElapsed(k * TickInterval, Origin) >= Total

AutoStopped == ~isPlaying /\ currentTime = Total

\* C32: from every state in which playback runs, for every cue sequence (the
\* empty one included), the clock reaches isPlaying = FALSE with elapsed =
\* totalDuration unless the user pauses or resets first, provided the effects
\* run, the interval callbacks fire and the wall clock advances.
C32_AutoStopReached ==
  (isPlaying /\ EndsInHorizon) ~> (AutoStopped \/ lastOp \in {"pause", "reset"})

\* C32 witness: playback started at elapsed 0 of a document with a positive
\* duration ran on without an operation of the user and has been stopped by
\* an interval callback at totalDuration.
C32_Witness ==
  /\ lastOp = "tick" /\ playFrom = 0 /\ Total > 0
  /\ AutoStopped /\ ~timerRef

\* C33: in every state at most one interval is scheduled, it is the one the
\* ref holds, and none is scheduled once isPlaying = FALSE has taken effect
\* (the timer effect has run): after a pause, a reset, the auto-stop at
\* totalDuration and the unmount of the reader.
C33_OneIntervalNoneWhenStopped ==
  /\ scheduled <= 1
  /\ scheduled = (IF timerRef THEN 1 ELSE 0)
  /\ (~isPlaying /\ ~dirtyTimer) => scheduled = 0

\* C33 witness: a reader has been closed after the wall clock moved on, and
\* no interval is scheduled.
C33_Witness ==
  /\ lastOp = "unmount" /\ now > 0
  /\ ~isPlaying /\ ~timerRef /\ scheduled = 0

\* C34: a tick that leaves playback running stores the wall-clock time minus
\* the origin, whatever time was stored before it and however many periods
\* passed since the last callback; the origin is recorded when play() takes
\* effect (wall clock minus elapsed) and no tick, seek or passing of time
\* changes it while the interval stays scheduled.
C34_ElapsedFromOrigin ==
  [][/\ (TickStep /\ isPlaying') => currentTime' = now - startTime
     /\ (dirtyTimer /\ ~dirtyTimer' /\ isPlaying) => startTime' = now - currentTime
     /\ (timerRef /\ timerRef' /\ ~dirtyTimer) => startTime' = startTime]_vars

\* C34 witness: played from elapsed 0, the callback that fired two periods
\* after play() (the first one on time or missed) stored two periods and
\* playback runs on.
C34_Witness ==
  /\ lastOp = "tick" /\ isPlaying /\ playFrom = 0
  /\ now - startTime = 2 * TickInterval /\ currentTime = 2 * TickInterval

\* ---- the cue that is open when a line is read ----
\* the timecode lines with no blank line after them: the last of them opened
\* the cue that is open at the end of the input
OpenTimecodes(lines) ==
  { k \in 1..Len(lines) :
      HasTimecode(lines[k]) /\ \A j \in (k + 1)..Len(lines) : ~IsBlank(lines[j]) }

LastOf(S) == CHOOSE k \in S : \A j \in S : j <= k

RECURSIVE TextFrom(_, _)
\* the trimmed lines from line k on, joined by single spaces
TextFrom(lines, k) ==
  IF k > Len(lines) THEN <<>>
  ELSE IF k = Len(lines) THEN Trim(lines[k])
  ELSE Trim(lines[k]) \o <<" ">> \o TextFrom(lines, k + 1)

\* C35: for .srt/.vtt input, a cue still open when the input ends is emitted
\* last, with the times of its timecode line and the text accumulated after
\* it; the emitted sequence is the one emitted for the same input followed by
\* a blank line.
C35_OpenCueEmitted ==
  SrtUpload =>
    /\ Emitted = ParseSrt(Append(SourceLines, <<>>))
    /\ Emitted = ParseSrt(Append(SourceLines, <<" ">>))
    /\ OpenTimecodes(SourceLines) # {} =>
         LET k == LastOf(OpenTimecodes(SourceLines))
         IN /\ Emitted # <<>>
            /\ Emitted[Len(Emitted)] =
                 [start |-> ReplaceComma(TimeMatch(SourceLines[k])[1]),
                  end |-> ReplaceComma(TimeMatch(SourceLines[k])[2]),
                  text |-> TextFrom(SourceLines, k + 1)]

\* C35 witness: an upload that ends in a text line right after its timecode
\* line was parsed into one cue with that text.
C35_Witness ==
  /\ SrtUpload /\ Len(SourceLines) = 2
  /\ OpenTimecodes(SourceLines) = {1} /\ ~IsBlank(SourceLines[2])
  /\ Len(Emitted) = 1 /\ Emitted[1].text = <<"a">>

\* the timecode lines whose cue is emitted: those followed by a blank line or
\* by the end of the input before the next timecode line
ClosedTimecodes(lines) ==
  { k \in 1..Len(lines) :
      /\ HasTimecode(lines[k])
      /\ \A j \in (k + 1)..Len(lines) :
           HasTimecode(lines[j]) => \E b \in (k + 1)..(j - 1) : IsBlank(lines[b]) }

\* the line that closes the cue opened at line k: the first blank line after
\* it, or the line after the last
CloseAt(lines, k) ==
  LET blanks == { j \in (k + 1)..Len(lines) : IsBlank(lines[j]) }
  IN IF blanks = {} THEN Len(lines) + 1
     ELSE CHOOSE j \in blanks : \A b \in blanks : j <= b

\* C36: for .srt/.vtt input, a timecode line met while a cue is open replaces
\* that cue. The emitted cues are, in order, those of the timecode lines that
\* are followed by a blank line or by the end of the input before the next
\* timecode line, each with the text lines between it and the line that
\* closes it; the cue of any other timecode line is not emitted.
C36_OpenCueReplaced ==
  SrtUpload =>
    LET closed == Ascending(ClosedTimecodes(SourceLines))
    IN /\ Len(Emitted) = Len(closed)
       /\ \A i \in 1..Len(closed) :
            Emitted[i] =
              [start |-> ReplaceComma(TimeMatch(SourceLines[closed[i]])[1]),
               end |-> ReplaceComma(TimeMatch(SourceLines[closed[i]])[2]),
               text |-> TextFrom(SubSeq(SourceLines, 1, CloseAt(SourceLines, closed[i]) - 1),
                                 closed[i] + 1)]

\* C36 witness: a timecode line, a text line and another timecode line were
\* uploaded; the single cue emitted is that of the second timecode line and
\* carries no text.
C36_Witness ==
  /\ SrtUpload /\ Len(SourceLines) = 3
  /\ HasTimecode(SourceLines[1]) /\ SourceLines[2] = <<" ", "a">>
  /\ HasTimecode(SourceLines[3]) /\ SourceLines[3] # SourceLines[1]
  /\ Len(Emitted) = 1 /\ Emitted[1].text = <<>>
  /\ Emitted[1].start = ReplaceComma(TimeMatch(SourceLines[3])[1])

\* ---- the in-flight flags ----
\* C37: isTranslating is TRUE exactly in the states in which a line call is
\* outstanding; it is FALSE after a call has settled, with a reply or with an
\* error, so that the next request can issue a call.
C37_LineFlagIffOutstanding ==
  /\ isTranslating <=> lineCalls # {}
  /\ lastOp \in {"lineDone", "lineFail"} => ~isTranslating

\* C37 witness: after the first line call has settled with an error, a second
\* request has issued a call and the flag is raised again.
C37_Witness ==
  /\ lastOp = "jump" /\ lineOutcome = "sent" /\ lineIssued = 2
  /\ \A i \in DOMAIN translations : translations[i] = <<>>
  /\ isTranslating /\ Cardinality(lineCalls) = 1

\* C38: isTranslatingWord is TRUE in every state in which the call issued for
\* the selected word is outstanding.
C38_WordFlagWhileOutstanding ==
  (selectedWord # <<>> /\ \E c \in wordCalls : c.id = selectedCall)
    => isTranslatingWord

\* C39: selecting a word (also one whose normal form is empty) and the arrival
\* of a word result leave currentTime, isPlaying and activeLineIndex as they
\* were; an interval callback and a slider seek issue no translation call;
\* a line call is issued by handleJumpToLine alone.
C39_WordLeavesPlaybackAlone ==
  [][/\ lastOp' \in {"word", "wordEmpty", "wordDone"}
          => UNCHANGED <<currentTime, isPlaying, activeLineIndex>>
     /\ lastOp' \in {"tick", "seek"}
          => UNCHANGED <<lineCalls, wordCalls, lineIssued, wordIssued>>
     /\ (lineIssued' # lineIssued \/ lineCalls' \ lineCalls # {}) => JumpStep]_vars

\* C39 witness: a word was selected and its result has arrived while playback
\* runs; the clock stands where the last interval callback put it and no line
\* call has been issued.
C39_Witness ==
  /\ lastOp = "wordDone" /\ selectedWord # <<>> /\ heldCall = selectedCall
  /\ isPlaying /\ timerRef /\ currentTime = TickInterval
  /\ lineIssued = 0
====
